---- MODULE Spec2Model ----
(***************************************************************************)
(* Delay tracker: monitored journeys, the detection cycle that advances    *)
(* them, and the transactional outbox with its relay workers.              *)
(*                                                                         *)
(* Time is counted in minutes.  Row ids are positions in the table         *)
(* sequences (the database mints a fresh uuid per insert).  The columns    *)
(* user_id, service_date, origin/destination, last_checked_at and the      *)
(* audit timestamps are carried by no decision of the code and are left    *)
(* out of the rows.                                                        *)
(***************************************************************************)
EXTENDS Integers, Sequences, FiniteSets, TLC

VARIABLES
    now,        \* wall clock (minutes)
    journeys,   \* delay_tracker.monitored_journeys, committed rows
    alerts,     \* delay_tracker.delay_alerts, committed rows
    outbox,     \* delay_tracker.outbox, committed rows
    reg,        \* in-flight DelayTrackerService.registerJourney calls
    cyc,        \* the in-flight DelayTrackerService.runDetectionCycle call
    lastTx,     \* history: what the last per-journey transaction left behind
    calls,      \* number of direct JourneyMonitor calls made so far
    relay,      \* in-flight OutboxPublisher passes, one per relay worker
    brokerUp,   \* whether MessageBroker.publish currently resolves
    handed,     \* history: per outbox row, the workers that called publish for it
    accepted,   \* history: per outbox row, how many publish calls resolved
    sched,      \* the CronScheduler: its fields and the interval timers installed
    exec,       \* in-flight CronScheduler.execute bodies, one slot per origin
    probe       \* one call of a single operation: its inputs and what it returned

vars == <<now, journeys, alerts, outbox, reg, cyc, lastTx, calls, relay, brokerUp,
          handed, accepted, sched, exec, probe>>

----------------------------------------------------------------------------
(* Bounds of the model *)

MaxCalls == 2          \* registerJourney calls
MaxTicks == 3          \* clock advances, each of one check interval
MaxAlerts == 2         \* delay_alerts rows
MaxOutbox == 3         \* outbox rows written by the service
MaxPasses == 4         \* relay passes started per worker
MaxMonitorCalls == 2   \* direct JourneyMonitor calls by other callers
MaxStartCalls == 2     \* CronScheduler.start calls
MaxStopCalls == 2      \* CronScheduler.stop calls
MaxExecutions == 3     \* CronScheduler.execute bodies begun
MaxDay == 3            \* days of outbox history seen by a cleanup

----------------------------------------------------------------------------
(* Program constants *)

NULL == -1
checkIntervalMinutes == 5
t48Hours == 48 * 60
thresholdMinutes == 15
maxRetries == 3
dueLimit == 100
processLimit == 100

MonitoringStatus == {"pending_rid", "active", "delayed", "completed", "cancelled"}

VALID_TRANSITIONS ==
    [s \in MonitoringStatus |->
        CASE s = "pending_rid" -> {"active", "cancelled"}
          [] s = "active"      -> {"delayed", "completed", "cancelled"}
          [] s = "delayed"     -> {"completed", "cancelled"}
          [] s = "completed"   -> {}
          [] s = "cancelled"   -> {}]

----------------------------------------------------------------------------
(* Inputs *)

ExtIds == 1..MaxCalls                      \* external journey_id values
Rids == {1}                                \* RIDs the matcher may hold
Departures == {0, t48Hours + checkIntervalMinutes}
MaxClock == MaxTicks * checkIntervalMinutes
Callers == 1..MaxCalls

----------------------------------------------------------------------------
(* Sequence helpers *)

Range(s) == {s[i] : i \in DOMAIN s}

\* The elements of a set of row ids in ascending order (ORDER BY created_at ASC)
RECURSIVE SeqOfSet(_)
SeqOfSet(S) ==
    IF S = {} THEN <<>>
    ELSE LET x == CHOOSE y \in S : \A z \in S : y <= z
         IN <<x>> \o SeqOfSet(S \ {x})

Take(s, n) == IF Len(s) <= n THEN s ELSE SubSeq(s, 1, n)

----------------------------------------------------------------------------
(* JourneyRepository: statements on monitored_journeys.  J is the table. *)

JourneyIds(J) == DOMAIN J

findByJourneyId(J, jid) == {id \in JourneyIds(J) : J[id].journey_id = jid}

\* The table without its unique constraint on journey_id
createUnconstrained(J, jid) == FALSE

\* INSERT ... RETURNING *: the unique constraint on journey_id rejects a
\* second row with the same external id.
createRejected(J, jid) == findByJourneyId(J, jid) # {}

create(J, jid, dep, arr, status, nextCheckAt) ==
    Append(J, [journey_id |-> jid, rid |-> NULL, monitoring_status |-> status,
               next_check_at |-> nextCheckAt,
               scheduled_departure |-> dep, scheduled_arrival |-> arr])

\* UPDATE ... SET monitoring_status = $1 [, rid = $3] WHERE id = $2
updateStatus(J, id, status, rid) ==
    IF id \notin JourneyIds(J) THEN J
    ELSE IF rid # NULL
         THEN [J EXCEPT ![id].monitoring_status = status, ![id].rid = rid]
         ELSE [J EXCEPT ![id].monitoring_status = status]

\* update(id, {rid, monitoring_status})
updateRidStatus(J, id, rid, status) ==
    IF id \notin JourneyIds(J) THEN J
    ELSE [J EXCEPT ![id].rid = rid, ![id].monitoring_status = status]

\* update(id, {next_check_at})
updateNextCheck(J, id, t) ==
    IF id \notin JourneyIds(J) THEN J ELSE [J EXCEPT ![id].next_check_at = t]

\* UPDATE ... SET last_checked_at = $1, next_check_at = $2 WHERE id = ANY($3)
updateLastCheckedRows(J, ids, nextCheckAt) ==
    [id \in JourneyIds(J) |->
        IF id \in ids THEN [J[id] EXCEPT !.next_check_at = nextCheckAt] ELSE J[id]]

\* WHERE next_check_at <= $1 AND monitoring_status IN ('active','pending_rid')
DueIds(J, t) ==
    {id \in JourneyIds(J) :
        /\ J[id].next_check_at # NULL
        /\ J[id].next_check_at <= t
        /\ J[id].monitoring_status \in {"active", "pending_rid"}}

\* ORDER BY next_check_at ASC LIMIT $2: every order of the due rows that is
\* ascending in next_check_at (rows with equal keys come in either order).
findJourneysDueForCheck(J, limit, t) ==
    LET D == DueIds(J, t)
        n == IF Cardinality(D) < limit THEN Cardinality(D) ELSE limit
    IN {s \in [1..n -> D] :
          /\ \A a, b \in 1..n : a < b => s[a] # s[b]
          /\ \A a, b \in 1..n : a < b => J[s[a]].next_check_at <= J[s[b]].next_check_at
          /\ \A d \in D \ Range(s) : \A a \in 1..n :
                J[s[a]].next_check_at <= J[d].next_check_at}

----------------------------------------------------------------------------
(* JourneyMonitor *)

\* registerJourney: the initial next_check_at
initialNextCheck(dep, t) ==
    IF dep - t > t48Hours THEN dep - t48Hours ELSE t + checkIntervalMinutes

\* The monitor without its transition check
transitionNeverRejected(J, id, newStatus) == FALSE

\* updateStatus: the transition check against the row read by findById;
\* a missing row skips the check
transitionRejected(J, id, newStatus) ==
    /\ id \in JourneyIds(J)
    /\ newStatus \notin VALID_TRANSITIONS[J[id].monitoring_status]

\* The status left as it is
monitorUpdateStatusSkipped(J, id, newStatus, rid) == J

monitorUpdateStatus(J, id, newStatus, rid) ==
    IF transitionRejected(J, id, newStatus) THEN J
    ELSE updateStatus(J, id, newStatus, rid)

\* resolveRid: two updates, no transition check
resolveRid(J, id, rid, t) ==
    updateNextCheck(updateRidStatus(J, id, rid, "active"), id, t)

\* cancelMonitoring / completeJourney: repository.updateStatus directly,
\* then next_check_at = null
cancelMonitoring(J, id) == updateNextCheck(updateStatus(J, id, "cancelled", NULL), id, NULL)

completeJourney(J, id) == updateNextCheck(updateStatus(J, id, "completed", NULL), id, NULL)

\* updateLastChecked: first (ids, now) which writes next_check_at = null,
\* then (ids, now, now + interval)
updateLastChecked(J, ids, t) ==
    updateLastCheckedRows(updateLastCheckedRows(J, ids, NULL), ids, t + checkIntervalMinutes)

----------------------------------------------------------------------------
(* OutboxRepository.create / OutboxPublisher builders *)

outboxCreate(O, eventType, aggregateId) ==
    Append(O, [event_type |-> eventType, aggregate_id |-> aggregateId,
               status |-> "pending", retry_count |-> 0])

\* SELECT ... WHERE status = 'pending' ORDER BY created_at ASC LIMIT $1
\* FOR UPDATE SKIP LOCKED; locked: the rows other transactions hold locked
findPendingForProcessing(O, limit, locked) ==
    Take(SeqOfSet({k \in DOMAIN O : O[k].status = "pending"} \ locked), limit)

markProcessed(O, id) == [O EXCEPT ![id].status = "processed"]

markFailed(O, id) == [O EXCEPT ![id].status = "failed", ![id].retry_count = @ + 1]

resetToPending(O, id) == [O EXCEPT ![id].status = "pending"]

\* The reading in which a row that failed maxRetries times is tried once more
findFailedForRetryInclusive(O, maxR) ==
    SeqOfSet({k \in DOMAIN O : O[k].status = "failed" /\ O[k].retry_count <= maxR})

\* SELECT ... WHERE status = 'failed' AND retry_count < $1 ORDER BY created_at ASC
findFailedForRetry(O, maxR) ==
    SeqOfSet({k \in DOMAIN O : O[k].status = "failed" /\ O[k].retry_count < maxR})

\* The deletion that looks at the age of a row alone
cleanupAnyStatus(rows, retentionDays, t) ==
    {id \in DOMAIN rows : ~(rows[id].created_at < t - retentionDays)}

\* DELETE ... WHERE status = 'processed' AND created_at < NOW() - INTERVAL
\* '1 day' * $1; rows: the table by id, times in days; the ids that remain
cleanupOldEvents(rows, retentionDays, t) ==
    {id \in DOMAIN rows :
        ~(rows[id].status = "processed" /\ rows[id].created_at < t - retentionDays)}

----------------------------------------------------------------------------
(* DelayDetector *)

\* Lines 36-38: the constructor throws for a threshold that is not positive
constructorRejects(threshold) == threshold <= 0

\* The reading in which the threshold itself is not yet a delay
meetsThresholdStrict(delayMinutes) == delayMinutes > thresholdMinutes

meetsThreshold(delayMinutes) == delayMinutes >= thresholdMinutes

detectDelay(journey, delayData) ==
    [journeyId        |-> journey.id,
     rid              |-> delayData.rid,
     isDelayed        |-> (delayData.total_delay_minutes > 0 \/ delayData.cancelled),
     isCancelled      |-> delayData.cancelled,
     delayMinutes     |-> delayData.total_delay_minutes,
     exceedsThreshold |-> meetsThreshold(delayData.total_delay_minutes),
     claimEligible    |-> (meetsThreshold(delayData.total_delay_minutes) \/ delayData.cancelled),
     dataNotFound     |-> FALSE]

notFoundResult(journey) ==
    [journeyId |-> journey.id, rid |-> journey.rid, isDelayed |-> FALSE,
     isCancelled |-> FALSE, delayMinutes |-> 0, exceedsThreshold |-> FALSE,
     claimEligible |-> FALSE, dataNotFound |-> TRUE]

\* Array.find: the first record with an equal rid; no record for a null rid
findDelayByRid(rid, delayDataArray) ==
    IF rid = NULL THEN {}
    ELSE LET hits == {k \in DOMAIN delayDataArray : delayDataArray[k].rid = rid}
         IN IF hits = {} THEN {}
            ELSE {delayDataArray[CHOOSE k \in hits : \A m \in hits : k <= m]}

detectDelaysBatch(journeySeq, delayDataArray) ==
    [k \in DOMAIN journeySeq |->
        LET found == findDelayByRid(journeySeq[k].rid, delayDataArray)
        IN IF found # {} THEN detectDelay(journeySeq[k], CHOOSE d \in found : TRUE)
           ELSE notFoundResult(journeySeq[k])]

----------------------------------------------------------------------------
(* ClaimTrigger.triggerClaim.  oracle is "throw" or the response record. *)

\* The response fields the classification reads; "absent" is a field the
\* JSON body does not carry
OracleResponses ==
    [success : {"true", "false", "absent"}, eligible : {"true", "false", "absent"},
     claim_reference_id : {NULL, 1}]

\* What the message of a raised exception mentions: one of the three words
\* the classification looks for, or none of them, for a connection failure
\* ("fetch failed", "socket hang up") and for any other exception
Messages == {"network", "ECONNREFUSED", "timeout", "connection", "other"}

OracleOutcomes == [kind : {"throw"}, message : Messages] \cup
    {[kind |-> "response", response |-> r] : r \in OracleResponses}

\* ClaimTriggerResult: reason "none" and retryable "absent" are fields the
\* result does not carry; oracleCalled records whether eligibilityClient
\* was called
claimResult(success, reason, ref, existing, retryable, called) ==
    [success |-> success, reason |-> reason, claimReferenceId |-> ref,
     existingClaimReferenceId |-> existing, retryable |-> retryable,
     oracleCalled |-> called]

\* The reading in which an alert exactly at the threshold is below it
belowThresholdInclusive(delayMinutes) == delayMinutes <= thresholdMinutes

\* Line 398: delayAlert.delay_minutes < this.thresholdMinutes
belowThreshold(delayMinutes) == delayMinutes < thresholdMinutes

\* Lines 457-459: the message mentions network, ECONNREFUSED or timeout
isNetworkError(message) == message \in {"network", "ECONNREFUSED", "timeout"}

triggerClaim(delayAlert, oracle) ==
    IF delayAlert.claim_triggered
    THEN claimResult(FALSE, "ALREADY_TRIGGERED", NULL, delayAlert.claim_reference_id,
                     "absent", FALSE)
    ELSE IF belowThreshold(delayAlert.delay_minutes)
    THEN claimResult(FALSE, "BELOW_THRESHOLD", NULL, NULL, "absent", FALSE)
    ELSE IF oracle.kind = "throw"
    THEN claimResult(FALSE, "NETWORK_ERROR", NULL, NULL,
                     IF isNetworkError(oracle.message) THEN "true" ELSE "false", TRUE)
    ELSE LET r == oracle.response IN
         IF r.success # "true" /\ r.claim_reference_id # NULL
         THEN claimResult(FALSE, "DUPLICATE_CLAIM", NULL, r.claim_reference_id, "absent", TRUE)
         ELSE IF r.eligible = "false"
         THEN claimResult(FALSE, "NOT_ELIGIBLE", NULL, NULL, "absent", TRUE)
         ELSE IF r.success # "true"
         THEN claimResult(FALSE, "SERVICE_ERROR", NULL, NULL, "false", TRUE)
         ELSE claimResult(TRUE, "none", r.claim_reference_id, NULL, "absent", TRUE)

\* The alert as runDetectionCycle hands it to triggerClaim (lines 407-412):
\* no claim_triggered and no claim_reference_id field
claimInput(result) ==
    [claim_triggered |-> FALSE, claim_reference_id |-> NULL,
     delay_minutes |-> result.delayMinutes]

\* Lines 437-439: the text stored in claim_trigger_response, named after the
\* outcome it is derived from
claimTriggerResponse(claim) ==
    IF claim.reason # "none" THEN claim.reason ELSE "Claim trigger failed"

----------------------------------------------------------------------------
(* DelayAlertRepository *)

\* INSERT INTO delay_alerts; the check constraint delay_minutes > 0
alertRejected(delayMinutes) == ~(delayMinutes > 0)

alertCreate(A, journeyId, delayMinutes, isCancellation, thresholdExceeded) ==
    Append(A, [monitored_journey_id |-> journeyId, delay_minutes |-> delayMinutes,
               is_cancellation |-> isCancellation, threshold_exceeded |-> thresholdExceeded,
               claim_triggered |-> FALSE, claim_triggered_at |-> NULL,
               claim_reference_id |-> NULL, claim_trigger_response |-> "null"])

\* The update without the reference column
markClaimTriggeredOnly(A, id, claimReferenceId, t) ==
    [A EXCEPT ![id].claim_triggered = TRUE, ![id].claim_triggered_at = t]

markClaimTriggered(A, id, claimReferenceId, t) ==
    [A EXCEPT ![id].claim_triggered = TRUE, ![id].claim_triggered_at = t,
              ![id].claim_reference_id = claimReferenceId]

alertUpdateResponse(A, id, response) ==
    [A EXCEPT ![id].claim_triggered = FALSE, ![id].claim_trigger_response = response]

----------------------------------------------------------------------------
(* Initial state: empty tables, nothing in flight *)

relayVars == <<relay, brokerUp, handed, accepted>>

schedVars == <<sched, exec>>

otherCalls == <<calls, relay, brokerUp, handed, accepted, sched, exec, probe>>

serviceVars == <<now, journeys, alerts, reg, cyc, lastTx, calls, sched, exec, probe>>

\* Where an execute call comes from: the interval timer, start(), a direct call
Origins == {"timer", "start", "direct"}

SchedInit == [running |-> FALSE, executing |-> FALSE, intervalId |-> NULL, timers |-> {},
              totalExecutions |-> 0, journeysProcessed |-> 0, errorCount |-> 0,
              startCalls |-> 0, stopCalls |-> 0, begun |-> 0]

ExecIdle == [pc |-> "idle", due |-> <<>>, outcome |-> "none"]

Workers == {1, 2}

RegIdle == [pc |-> "idle", journey_id |-> 0, dep |-> 0, next |-> NULL, row |-> 0,
            monitor |-> "none", result |-> "none"]

\* lookups, fetchFailed and scopes log what the cycle did: the matcher
\* lookups with the RID obtained (NULL for none) and the time, whether the
\* upstream lookup failed, and the commit scopes entered, each with its
\* detection result, whether a statement raised in it, whether the database
\* was made to raise in it, whether triggerClaim was called and what it
\* returned
CycIdle == [pc |-> "idle", due |-> <<>>, i |-> 1, now |-> 0, completed |-> {},
            pending |-> <<>>, active |-> <<>>, results |-> <<>>,
            delaysDetected |-> 0, claimsTriggered |-> 0,
            lookups |-> {}, fetchFailed |-> FALSE, scopes |-> <<>>]

NoTx == [journey |-> 0, alert |-> FALSE, status |-> FALSE, events |-> FALSE]

\* No single operation under observation
ProbeIdle == [fn |-> "none"]

RelayIdle == [pc |-> "idle", kind |-> "none", events |-> <<>>, i |-> 1, up |-> TRUE,
              passes |-> 0]

InitTables ==
    /\ now = 0
    /\ journeys = <<>>
    /\ alerts = <<>>
    /\ outbox = <<>>
    /\ reg = [c \in Callers |-> RegIdle]
    /\ cyc = CycIdle
    /\ lastTx = NoTx
    /\ calls = 0
    /\ relay = [w \in Workers |-> RelayIdle]
    /\ brokerUp = TRUE
    /\ handed = [k \in 1..MaxOutbox |-> {}]
    /\ accepted = [k \in 1..MaxOutbox |-> 0]
    /\ sched = SchedInit
    /\ exec = [o \in Origins |-> ExecIdle]

Init == InitTables /\ probe = ProbeIdle

----------------------------------------------------------------------------
(* The clock *)

Tick ==
    /\ now + checkIntervalMinutes <= MaxClock
    /\ now' = now + checkIntervalMinutes
    /\ UNCHANGED <<journeys, alerts, outbox, reg, cyc, lastTx, otherCalls>>

----------------------------------------------------------------------------
(* DelayTrackerService.registerJourney, one step per awaited statement *)

\* JourneyMonitor.registerJourney: findByJourneyId, then the schedule
RegCheck(c, jid, dep) ==
    /\ reg[c].pc = "idle"
    /\ \A b \in Callers : b < c => reg[b].pc # "idle"   \* callers are interchangeable
    /\ IF findByJourneyId(journeys, jid) # {}
       THEN reg' = [reg EXCEPT ![c] = [RegIdle EXCEPT !.pc = "done", !.journey_id = jid,
                        !.monitor = "already_registered", !.result = "already_registered"]]
       ELSE reg' = [reg EXCEPT ![c] = [RegIdle EXCEPT !.pc = "checked", !.journey_id = jid,
                        !.dep = dep, !.next = initialNextCheck(dep, now)]]
    /\ UNCHANGED <<now, journeys, alerts, outbox, cyc, lastTx, otherCalls>>

\* JourneyMonitor.registerJourney: repository.create
RegInsert(c) ==
    /\ reg[c].pc = "checked"
    /\ IF createRejected(journeys, reg[c].journey_id)
       THEN /\ reg' = [reg EXCEPT ![c].pc = "done", ![c].monitor = "unique_violation",
                                  ![c].dep = 0, ![c].next = NULL,
                                  ![c].result = "unique_violation"]
            /\ UNCHANGED journeys
       ELSE /\ journeys' = create(journeys, reg[c].journey_id, reg[c].dep,
                                  reg[c].dep + 2 * checkIntervalMinutes, "pending_rid", reg[c].next)
            /\ reg' = [reg EXCEPT ![c].pc = "inserted", ![c].monitor = "ok",
                                  ![c].dep = 0, ![c].next = NULL,
                                  ![c].row = Len(journeys) + 1]
    /\ UNCHANGED <<now, alerts, outbox, cyc, lastTx, otherCalls>>

\* publishJourneyMonitoringStarted on the pool; dbFails: the insert raises
RegOutbox(c, dbFails) ==
    /\ reg[c].pc = "inserted"
    /\ IF dbFails
       THEN /\ reg' = [reg EXCEPT ![c].pc = "done", ![c].result = "error"]
            /\ UNCHANGED outbox
       ELSE /\ Len(outbox) < MaxOutbox
            /\ outbox' = outboxCreate(outbox, "journey.monitoring_started", reg[c].row)
            /\ reg' = [reg EXCEPT ![c].pc = "done", ![c].result = "ok"]
    /\ UNCHANGED <<now, journeys, alerts, cyc, lastTx, otherCalls>>

----------------------------------------------------------------------------
(* Direct calls of the JourneyMonitor API by other callers *)

CallCancelMonitoring(id) ==
    /\ id \in JourneyIds(journeys)
    /\ calls < MaxMonitorCalls
    /\ calls' = calls + 1
    /\ journeys' = cancelMonitoring(journeys, id)
    /\ UNCHANGED <<now, alerts, outbox, reg, cyc, lastTx, relayVars, schedVars, probe>>

CallCompleteJourney(id) ==
    /\ id \in JourneyIds(journeys)
    /\ calls < MaxMonitorCalls
    /\ calls' = calls + 1
    /\ journeys' = completeJourney(journeys, id)
    /\ UNCHANGED <<now, alerts, outbox, reg, cyc, lastTx, relayVars, schedVars, probe>>

CallResolveRid(id, rid) ==
    /\ id \in JourneyIds(journeys)
    /\ calls < MaxMonitorCalls
    /\ calls' = calls + 1
    /\ journeys' = resolveRid(journeys, id, rid, now)
    /\ UNCHANGED <<now, alerts, outbox, reg, cyc, lastTx, relayVars, schedVars, probe>>

CallUpdateStatus(id, newStatus, rid) ==
    /\ id \in JourneyIds(journeys)
    /\ calls < MaxMonitorCalls
    /\ calls' = calls + 1
    /\ journeys' = monitorUpdateStatus(journeys, id, newStatus, rid)
    /\ UNCHANGED <<now, alerts, outbox, reg, cyc, lastTx, relayVars, schedVars, probe>>

----------------------------------------------------------------------------
(* DelayTrackerService.runDetectionCycle *)

\* The row as the cycle holds it: a copy taken by the due query
Snapshot(J, id) ==
    [id |-> id, journey_id |-> J[id].journey_id, rid |-> J[id].rid,
     monitoring_status |-> J[id].monitoring_status,
     scheduled_arrival |-> J[id].scheduled_arrival]

\* Upstream delay records the Darwin client may return
RespRids == Rids \cup {2}
DelayValues == {0, thresholdMinutes}
DelayData == [rid : RespRids, total_delay_minutes : DelayValues, cancelled : BOOLEAN]
DarwinResponses == {<<>>} \cup {<<d>> : d \in DelayData}
                     \cup {<<d, e>> : d \in DelayData, e \in DelayData}

MatcherOutcomes ==
    {[kind |-> "none", rid |-> NULL], [kind |-> "throw", rid |-> NULL]}
        \cup {[kind |-> "rid", rid |-> r] : r \in Rids}

\* Statement of the per-journey transaction at which the database raises
TxFaults == {"none", "alert", "status", "outbox", "claim", "commit"}

\* Lines 332-341: with one journey and one record, the record is given the
\* journey's rid
mapDelayData(journeysWithRids, delayDataArray) ==
    IF Len(journeysWithRids) = 1 /\ Len(delayDataArray) = 1
    THEN <<[delayDataArray[1] EXCEPT !.rid = journeysWithRids[1].rid]>>
    ELSE delayDataArray

journeysWithRidsOf(active) ==
    LET HasRid(j) == j.rid # NULL IN SelectSeq(active, HasRid)

\* getJourneysDueForCheck; an empty due set returns zero metrics at once
CycleStart ==
    /\ cyc.pc = "idle"
    /\ \E due \in findJourneysDueForCheck(journeys, dueLimit, now) :
         /\ due # <<>>
         /\ cyc' = [CycIdle EXCEPT !.pc = "partition", !.now = now,
                        !.due = [k \in DOMAIN due |-> Snapshot(journeys, due[k])]]
    /\ UNCHANGED <<now, journeys, alerts, outbox, reg, lastTx, otherCalls>>

\* Lines 220-245, one journey of the due set.  dbFails: the journey.completed
\* insert raises, and nothing catches it: the cycle ends by throwing.
CyclePartition(dbFails) ==
    /\ cyc.pc = "partition"
    /\ LET j == cyc.due[cyc.i]
           last == cyc.i = Len(cyc.due)
           step(c) == IF last
                      THEN [c EXCEPT !.i = 1,
                                     !.pc = IF c.pending = <<>> THEN "fetch" ELSE "resolve"]
                      ELSE [c EXCEPT !.i = c.i + 1]
       IN IF j.scheduled_arrival < cyc.now
          THEN /\ journeys' = completeJourney(journeys, j.id)
               /\ IF dbFails
                  THEN cyc' = [cyc EXCEPT !.pc = "threw"] /\ UNCHANGED outbox
                  ELSE /\ Len(outbox) < MaxOutbox
                       /\ outbox' = outboxCreate(outbox, "journey.completed", j.id)
                       /\ cyc' = step([cyc EXCEPT !.completed = @ \cup {j.id}])
          ELSE /\ ~dbFails
               /\ UNCHANGED <<journeys, outbox>>
               /\ cyc' = step(IF j.monitoring_status = "pending_rid"
                              THEN [cyc EXCEPT !.pending = Append(@, j)]
                              ELSE IF j.monitoring_status = "active"
                              THEN [cyc EXCEPT !.active = Append(@, j)]
                              ELSE cyc)
    /\ UNCHANGED <<now, alerts, reg, lastTx, otherCalls>>

\* The retry left unscheduled
lookupFailedUnpaced(J, id, t) == J

\* Lines 270-286: no RID yet, no segments, no journey, or the matcher raised:
\* schedule the retry
lookupFailed(J, id, t) == updateLastChecked(J, {id}, t)

\* Lines 249-287, one pending_rid journey: the matcher answers with a RID,
\* with none, or raises
CycleResolve(m) ==
    /\ cyc.pc = "resolve"
    /\ LET j == cyc.pending[cyc.i] IN
         /\ journeys' = IF m.kind = "rid" THEN resolveRid(journeys, j.id, m.rid, now)
                        ELSE lookupFailed(journeys, j.id, now)
         /\ cyc' = LET c == [cyc EXCEPT !.lookups =
                                @ \cup {[id |-> j.id, rid |-> m.rid, t |-> now]}]
                   IN IF cyc.i = Len(cyc.pending)
                      THEN [c EXCEPT !.i = 1, !.pc = "fetch"]
                      ELSE [c EXCEPT !.i = cyc.i + 1]
    /\ UNCHANGED <<now, alerts, outbox, reg, lastTx, otherCalls>>

\* The reading in which the lookup's exception leaves the cycle
afterFetchFailedRethrow(c, t) == [c EXCEPT !.pc = "threw", !.now = t, !.fetchFailed = TRUE]

\* Lines 321-326: the early return of zero detections
afterFetchFailed(c, t) ==
    [c EXCEPT !.pc = "returned", !.now = t, !.fetchFailed = TRUE,
              !.delaysDetected = 0, !.claimsTriggered = 0]

\* Lines 290-349: the batched upstream lookup and the classification
CycleFetchFailed ==
    /\ cyc.pc = "fetch"
    /\ journeysWithRidsOf(cyc.active) # <<>>
    /\ journeys' = updateLastChecked(journeys,
                      {j.id : j \in Range(journeysWithRidsOf(cyc.active))}, now)
    /\ cyc' = afterFetchFailed(cyc, now)
    /\ UNCHANGED <<now, alerts, outbox, reg, lastTx, otherCalls>>

CycleFetch(response) ==
    /\ cyc.pc = "fetch"
    /\ LET withRids == journeysWithRidsOf(cyc.active) IN
         IF withRids = <<>>
         THEN /\ response = <<>>
              /\ cyc' = [cyc EXCEPT !.pc = "pace"]
         ELSE cyc' = [cyc EXCEPT !.pc = "commit", !.i = 1,
                         !.results = detectDelaysBatch(withRids,
                                         mapDelayData(withRids, response))]
    /\ UNCHANGED <<now, journeys, alerts, outbox, reg, lastTx, otherCalls>>

\* Line 405: the claim is attempted for an eligible result that is not a
\* cancellation
claimWanted(result) == result.claimEligible /\ ~result.isCancelled

\* The reading in which a success needs no reference
claimSucceededAnyReference(claim) == claim.success

\* Line 414: claimResult.success && claimResult.claimReferenceId
claimSucceeded(claim) == claim.success /\ claim.claimReferenceId # NULL

\* The observed minutes recorded as they are
alertDelayMinutesObserved(result) == result.delayMinutes

\* Lines 372-374: the minutes recorded on the alert
alertDelayMinutes(result) ==
    IF result.isCancelled /\ result.delayMinutes = 0 THEN 1 ELSE result.delayMinutes

\* The connection that runs JourneyMonitor.updateStatus inside the commit
\* scope: the monitor and its repository take no client, so the statement
\* runs on the pool and is committed on its own.
statusUpdateInTransaction == FALSE

\* Lines 364-460: the commit scope of one detection result.  The alert and
\* the outbox rows are written on the transaction's client and become
\* visible at COMMIT; fault names the statement that raises.  The value is
\* the tables the scope leaves behind.
commitScope(J, A, O, result, fault, oracle, t) ==
    LET rolledBack(JJ) == [journeys |-> JJ, alerts |-> A, outbox |-> O,
                           committed |-> FALSE, claimed |-> FALSE]
        minutes == alertDelayMinutes(result)
        A1 == alertCreate(A, result.journeyId, minutes, result.isCancelled,
                          result.exceedsThreshold)
        alertId == Len(A1)
        newStatus == IF result.isCancelled THEN "cancelled" ELSE "delayed"
        J1 == monitorUpdateStatus(J, result.journeyId, newStatus, NULL)
        \* what a ROLLBACK leaves of the status change
        JR == IF statusUpdateInTransaction THEN J ELSE J1
        O1 == outboxCreate(O, "delay.detected", alertId)
        claim == triggerClaim(claimInput(result), oracle)
        wantsClaim == claimWanted(result)
        claimOk == wantsClaim /\ claimSucceeded(claim)
        A2 == IF ~wantsClaim THEN A1
              ELSE IF claimOk THEN markClaimTriggered(A1, alertId, claim.claimReferenceId, t)
              ELSE alertUpdateResponse(A1, alertId, claimTriggerResponse(claim))
        O2 == IF claimOk THEN outboxCreate(O1, "claim.triggered", alertId) ELSE O1
    IN  IF fault = "alert" \/ alertRejected(minutes) THEN rolledBack(J)
        ELSE IF fault = "status" \/ transitionRejected(J, result.journeyId, newStatus)
        THEN rolledBack(J)
        ELSE IF fault = "outbox" THEN rolledBack(JR)
        ELSE IF fault = "claim" /\ wantsClaim THEN rolledBack(JR)
        ELSE IF fault = "commit" THEN rolledBack(JR)
        ELSE [journeys |-> J1, alerts |-> A2, outbox |-> O2,
              committed |-> TRUE, claimed |-> claimOk]

\* The scope executes the statement at which the database is made to raise
faultHit(result, fault) ==
    \/ fault \in {"alert", "status", "outbox", "commit"}
    \/ fault = "claim" /\ claimWanted(result)

\* Lines 376-407: the scope gets as far as claimTrigger.triggerClaim
claimReached(J, result, fault) ==
    /\ claimWanted(result)
    /\ fault \notin {"alert", "status", "outbox"}
    /\ ~alertRejected(alertDelayMinutes(result))
    /\ ~transitionRejected(J, result.journeyId, "delayed")

\* Lines 405-412: what triggerClaim returned to the scope, if it was called
claimOutcome(J, result, fault, oracle) ==
    IF claimReached(J, result, fault) THEN triggerClaim(claimInput(result), oracle)
    ELSE claimResult(FALSE, "none", NULL, NULL, "absent", FALSE)

\* The reading in which an exception of the commit scope leaves the cycle
afterScopeRethrow(c, raised, last) ==
    IF raised THEN [c EXCEPT !.pc = "threw"]
    ELSE IF last THEN [c EXCEPT !.i = 1, !.pc = "pace"]
    ELSE [c EXCEPT !.i = c.i + 1]

\* Lines 452-459: COMMIT, or catch: ROLLBACK and log; either way the loop
\* goes on with the next result, and after the last one with the pacing
afterScope(c, raised, last) ==
    IF last THEN [c EXCEPT !.i = 1, !.pc = "pace"]
    ELSE [c EXCEPT !.i = c.i + 1]

\* Lines 352-460, one detection result
CycleCommit(fault, oracle) ==
    /\ cyc.pc = "commit"
    /\ LET result == cyc.results[cyc.i]
           last == cyc.i = Len(cyc.results)
           next(c) == afterScope(c, FALSE, last)
       IN IF ~result.exceedsThreshold /\ ~result.isCancelled
          THEN /\ fault = "none"
               /\ oracle = [kind |-> "throw", message |-> "other"]
               /\ cyc' = next(cyc)
               /\ UNCHANGED <<journeys, alerts, outbox, lastTx>>
          ELSE LET out == commitScope(journeys, alerts, outbox, result, fault, oracle, now)
                   counted == result.claimEligible /\ ~result.isCancelled
                              /\ fault \notin {"alert", "status", "outbox"}
                              /\ ~alertRejected(alertDelayMinutes(result))
                              /\ ~transitionRejected(journeys, result.journeyId, "delayed")
                              /\ claimSucceeded(triggerClaim(claimInput(result), oracle))
               IN /\ claimWanted(result) \/ oracle = [kind |-> "throw", message |-> "other"]
                  /\ Len(out.alerts) <= MaxAlerts
                  /\ Len(out.outbox) <= MaxOutbox
                  /\ journeys' = out.journeys
                  /\ alerts' = out.alerts
                  /\ outbox' = out.outbox
                  /\ lastTx' = [journey |-> result.journeyId,
                                alert   |-> Len(out.alerts) > Len(alerts),
                                status  |-> out.journeys[result.journeyId].monitoring_status
                                              # journeys[result.journeyId].monitoring_status,
                                events  |-> Len(out.outbox) > Len(outbox)]
                  /\ cyc' = afterScope(
                               [cyc EXCEPT !.delaysDetected = @ + 1,
                                   !.claimsTriggered = IF counted THEN @ + 1 ELSE @,
                                   !.scopes = Append(@, [journey |-> result.journeyId,
                                       result |-> result,
                                       raised |-> ~out.committed,
                                       injected |-> faultHit(result, fault),
                                       attempted |-> claimReached(journeys, result, fault),
                                       claim |-> claimOutcome(journeys, result,
                                                              fault, oracle)])],
                               ~out.committed, last)
    /\ UNCHANGED <<now, reg, otherCalls>>

\* Lines 463-471: the pacing update of every due journey not completed here
CyclePace ==
    /\ cyc.pc = "pace"
    /\ LET remaining == {j.id : j \in Range(cyc.due)} \ cyc.completed
       IN journeys' = IF remaining = {} THEN journeys
                      ELSE updateLastChecked(journeys, remaining, now)
    /\ cyc' = [cyc EXCEPT !.pc = "returned", !.now = now]
    /\ UNCHANGED <<now, alerts, outbox, reg, lastTx, otherCalls>>

\* The caller has the cycle's metrics, or its exception
CycleReturn ==
    /\ cyc.pc \in {"returned", "threw"}
    /\ cyc' = CycIdle
    /\ UNCHANGED <<now, journeys, alerts, outbox, reg, lastTx, otherCalls>>

----------------------------------------------------------------------------
(* OutboxPublisher: processOutbox and retryFailedEvents, one step per        *)
(* awaited call.  The broker is configured; its publish resolves while       *)
(* brokerUp holds and rejects otherwise.                                     *)

\* Rows that transactions other than worker w's hold locked.  The locking
\* SELECT of findPendingForProcessing runs on the pool, not on the client
\* that issued BEGIN: its implicit transaction ends with the statement, and
\* so do its row locks.
locksHeldByOthers(w) == {}

\* BEGIN; findPendingForProcessing(100)
ProcessOutboxStart(w) ==
    /\ relay[w].pc = "idle"
    /\ relay[w].passes < MaxPasses
    /\ relay' = [relay EXCEPT ![w] =
           [pc |-> "loop", kind |-> "process",
            events |-> findPendingForProcessing(outbox, processLimit, locksHeldByOthers(w)),
            i |-> 1, up |-> brokerUp, passes |-> relay[w].passes + 1]]
    /\ UNCHANGED <<serviceVars, outbox, brokerUp, handed, accepted>>

\* findFailedForRetry(maxRetries)
RetryFailedStart(w) ==
    /\ relay[w].pc = "idle"
    /\ relay[w].passes < MaxPasses
    /\ relay' = [relay EXCEPT ![w] =
           [pc |-> "loop", kind |-> "retry",
            events |-> findFailedForRetry(outbox, maxRetries),
            i |-> 1, up |-> brokerUp, passes |-> relay[w].passes + 1]]
    /\ UNCHANGED <<serviceVars, outbox, brokerUp, handed, accepted>>

\* retryFailedEvents: resetToPending(event.id)
RelayReset(w) ==
    /\ relay[w].pc = "loop" /\ relay[w].kind = "retry"
    /\ relay[w].i <= Len(relay[w].events)
    /\ outbox' = resetToPending(outbox, relay[w].events[relay[w].i])
    /\ relay' = [relay EXCEPT ![w].pc = "reset"]
    /\ UNCHANGED <<serviceVars, brokerUp, handed, accepted>>

\* messageBroker.publish(event)
RelayPublish(w) ==
    /\ \/ relay[w].pc = "loop" /\ relay[w].kind = "process"
          /\ relay[w].i <= Len(relay[w].events)
       \/ relay[w].pc = "reset"
    /\ LET id == relay[w].events[relay[w].i]
       IN /\ handed' = [handed EXCEPT ![id] = @ \cup {w}]
          /\ IF brokerUp
             THEN /\ accepted' = [accepted EXCEPT ![id] = @ + 1]
                  /\ relay' = [relay EXCEPT ![w].pc = "accepted"]
             ELSE /\ UNCHANGED accepted
                  /\ relay' = [relay EXCEPT ![w].pc = "rejected", ![w].up = FALSE]
    /\ UNCHANGED <<serviceVars, outbox, brokerUp>>

\* markProcessed(event.id)
RelayMarkProcessed(w) ==
    /\ relay[w].pc = "accepted"
    /\ outbox' = markProcessed(outbox, relay[w].events[relay[w].i])
    /\ relay' = [relay EXCEPT ![w].pc = "loop", ![w].i = @ + 1]
    /\ UNCHANGED <<serviceVars, brokerUp, handed, accepted>>

\* catch: markFailed(event.id, errorMessage)
RelayMarkFailed(w) ==
    /\ relay[w].pc = "rejected"
    /\ outbox' = markFailed(outbox, relay[w].events[relay[w].i])
    /\ relay' = [relay EXCEPT ![w].pc = "loop", ![w].i = @ + 1]
    /\ UNCHANGED <<serviceVars, brokerUp, handed, accepted>>

\* The loop is over: COMMIT and release (processOutbox), or return
RelayEnd(w) ==
    /\ relay[w].pc = "loop"
    /\ relay[w].i > Len(relay[w].events)
    /\ relay' = [relay EXCEPT ![w].pc = "idle", ![w].events = <<>>, ![w].i = 1]
    /\ UNCHANGED <<serviceVars, outbox, brokerUp, handed, accepted>>

\* The broker goes down or comes back
BrokerFlip ==
    /\ brokerUp' = ~brokerUp
    /\ UNCHANGED <<serviceVars, outbox, relay, handed, accepted>>

----------------------------------------------------------------------------
(* CronScheduler.  An async function runs without interruption up to its    *)
(* first await: the flag test and the flag set of execute are one step, and *)
(* so are start up to its awaited execute, and the whole of stop.           *)

nonSchedVars == <<alerts, outbox, reg, cyc, lastTx, calls, relayVars, probe>>

\* execute without its guard
neverDropped(s) == FALSE

\* Line 107: if (this.executing) return
executeDropped(s) == s.executing

\* The flag left set
executeNoFinally(s) == s

\* Lines 141-143: finally { this.executing = false }
executeFinally(s) == [s EXCEPT !.executing = FALSE]

\* Lines 133-134: the metrics of a tick that ended normally
executeCounted(s, n) ==
    [s EXCEPT !.totalExecutions = @ + 1, !.journeysProcessed = @ + n]

\* Lines 136-137: catch
executeCaught(s) == [s EXCEPT !.errorCount = @ + 1]

\* start without its guard
neverIgnored(s) == FALSE

\* Line 71: if (this.running) return
startIgnored(s) == s.running

\* Lines 105-112: the synchronous head of an execute call from origin o, on
\* the scheduler s and the slots e
executeHead(s, e, o) ==
    IF executeDropped(s)
    THEN [sched |-> s,
          exec  |-> IF e[o].pc = "idle" THEN [e EXCEPT ![o].outcome = "dropped"] ELSE e]
    ELSE [sched |-> [s EXCEPT !.executing = TRUE, !.begun = @ + 1],
          exec  |-> [e EXCEPT ![o] = [ExecIdle EXCEPT !.pc = "query"]]]

\* Lines 70-85: start(), up to the await of its immediate execute
SchedStart ==
    /\ sched.startCalls < MaxStartCalls
    /\ LET s0 == [sched EXCEPT !.startCalls = @ + 1] IN
       IF startIgnored(sched)
       THEN sched' = s0 /\ UNCHANGED exec
       ELSE LET id == s0.startCalls
                s1 == [s0 EXCEPT !.running = TRUE, !.intervalId = id,
                                 !.timers = @ \cup {id}]
                h  == executeHead(s1, exec, "start")
            IN /\ executeDropped(s1) \/ (exec["start"].pc = "idle" /\ sched.begun < MaxExecutions)
               /\ sched' = h.sched
               /\ exec' = h.exec
    /\ UNCHANGED <<now, journeys, nonSchedVars>>

\* Lines 90-99: stop()
SchedStop ==
    /\ sched.stopCalls < MaxStopCalls
    /\ LET s0 == [sched EXCEPT !.stopCalls = @ + 1] IN
       IF ~sched.running
       THEN sched' = s0
       ELSE sched' = [s0 EXCEPT !.running = FALSE,
                                !.timers = IF sched.intervalId # NULL
                                           THEN @ \ {sched.intervalId} ELSE @,
                                !.intervalId = NULL]
    /\ UNCHANGED <<now, journeys, exec, nonSchedVars>>

\* An execute call: the callback of an installed interval timer (lines
\* 79-81), or a direct call
ExecuteCall(o) ==
    /\ o \in {"timer", "direct"}
    /\ o = "timer" => sched.timers # {}
    /\ exec[o].pc = "idle"
    /\ executeDropped(sched) \/ sched.begun < MaxExecutions
    /\ LET h == executeHead(sched, exec, o)
       IN sched' = h.sched /\ exec' = h.exec
    /\ UNCHANGED <<now, journeys, nonSchedVars>>

\* The body ends normally having processed n journeys
executeEndsOk(o, n) ==
    /\ sched' = executeFinally(executeCounted(sched, n))
    /\ exec' = [exec EXCEPT ![o] = [ExecIdle EXCEPT !.outcome = "ok"]]

\* The body ends in its catch block
executeEndsCaught(o) ==
    /\ sched' = executeFinally(executeCaught(sched))
    /\ exec' = [exec EXCEPT ![o] = [ExecIdle EXCEPT !.outcome = "caught"]]

\* Line 116: getJourneysDueForCheck; dbFails: the query raises
ExecQuery(o, dbFails) ==
    /\ exec[o].pc = "query"
    /\ IF dbFails THEN executeEndsCaught(o)
       ELSE \E due \in findJourneysDueForCheck(journeys, dueLimit, now) :
              IF due = <<>> THEN executeEndsOk(o, 0)
              ELSE LET rows == [k \in DOMAIN due |-> Snapshot(journeys, due[k])]
                       withRids == journeysWithRidsOf(rows)
                   IN /\ exec' = [exec EXCEPT ![o].due = rows,
                                     ![o].pc = IF withRids # <<>> THEN "check" ELSE "update"]
                      /\ UNCHANGED sched
    /\ UNCHANGED <<now, journeys, nonSchedVars>>

\* Line 125: delayChecker.checkDelays, whose results execute drops;
\* upstreamFails: the Darwin lookup raises and checkDelays with it
ExecCheck(o, upstreamFails) ==
    /\ exec[o].pc = "check"
    /\ IF upstreamFails THEN executeEndsCaught(o)
       ELSE exec' = [exec EXCEPT ![o].pc = "update"] /\ UNCHANGED sched
    /\ UNCHANGED <<now, journeys, nonSchedVars>>

\* Lines 129-135: updateLastChecked of every due journey, then the metrics;
\* dbFails: the update raises
ExecUpdate(o, dbFails) ==
    /\ exec[o].pc = "update"
    /\ IF dbFails
       THEN executeEndsCaught(o) /\ UNCHANGED journeys
       ELSE /\ journeys' = updateLastChecked(journeys,
                              {j.id : j \in Range(exec[o].due)}, now)
            /\ executeEndsOk(o, Len(exec[o].due))
    /\ UNCHANGED <<now, nonSchedVars>>

Scheduler ==
    \/ SchedStart
    \/ SchedStop
    \/ \E o \in Origins : ExecuteCall(o)
    \/ \E o \in Origins, dbFails \in BOOLEAN : ExecQuery(o, dbFails)
    \/ \E o \in Origins, upstreamFails \in BOOLEAN : ExecCheck(o, upstreamFails)
    \/ \E o \in Origins, dbFails \in BOOLEAN : ExecUpdate(o, dbFails)

----------------------------------------------------------------------------
(* The service: registration, detection cycles, direct monitor calls *)

Register ==
    \/ \E c \in Callers, jid \in ExtIds, dep \in Departures : RegCheck(c, jid, dep)
    \/ \E c \in Callers : RegInsert(c)
    \/ \E c \in Callers, dbFails \in BOOLEAN : RegOutbox(c, dbFails)

Cycle ==
    \/ CycleStart
    \/ \E dbFails \in BOOLEAN : CyclePartition(dbFails)
    \/ \E m \in MatcherOutcomes : CycleResolve(m)
    \/ CycleFetchFailed
    \/ \E response \in DarwinResponses : CycleFetch(response)
    \/ \E fault \in TxFaults, oracle \in OracleOutcomes : CycleCommit(fault, oracle)
    \/ CyclePace
    \/ CycleReturn

MonitorCalls ==
    \/ \E id \in Callers : CallCancelMonitoring(id)
    \/ \E id \in Callers : CallCompleteJourney(id)
    \/ \E id \in Callers, rid \in Rids : CallResolveRid(id, rid)
    \/ \E id \in Callers, st \in MonitoringStatus, rid \in Rids \cup {NULL} :
          CallUpdateStatus(id, st, rid)

\* DelayTrackerService.registerJourney as one step: a call that no other
\* call overlaps
RegisterJourney(c, jid, dep, dbFails) ==
    /\ reg[c].pc = "idle"
    /\ \A b \in Callers : b < c => reg[b].pc # "idle"
    /\ IF findByJourneyId(journeys, jid) # {}
       THEN /\ reg' = [reg EXCEPT ![c] = [RegIdle EXCEPT !.pc = "done", !.journey_id = jid,
                        !.monitor = "already_registered", !.result = "already_registered"]]
            /\ UNCHANGED <<journeys, outbox>>
       ELSE /\ journeys' = create(journeys, jid, dep, dep + 2 * checkIntervalMinutes,
                                  "pending_rid", initialNextCheck(dep, now))
            /\ IF dbFails
               THEN /\ UNCHANGED outbox
                    /\ reg' = [reg EXCEPT ![c] = [RegIdle EXCEPT !.pc = "done",
                                 !.journey_id = jid, !.row = Len(journeys) + 1,
                                 !.monitor = "ok", !.result = "error"]]
               ELSE /\ Len(outbox) < MaxOutbox
                    /\ outbox' = outboxCreate(outbox, "journey.monitoring_started",
                                              Len(journeys) + 1)
                    /\ reg' = [reg EXCEPT ![c] = [RegIdle EXCEPT !.pc = "done",
                                 !.journey_id = jid, !.row = Len(journeys) + 1,
                                 !.monitor = "ok", !.result = "ok"]]
    /\ UNCHANGED <<now, alerts, cyc, lastTx, otherCalls>>

RegisterCalls ==
    \E c \in Callers, jid \in ExtIds, dep \in Departures, dbFails \in BOOLEAN :
        RegisterJourney(c, jid, dep, dbFails)

\* The service: registrations and detection cycles
Next == Tick \/ RegisterCalls \/ Cycle

Spec == Init /\ [][Next]_vars

\* Overlapping registerJourney calls, statement by statement
NextReg == Tick \/ Register

SpecReg == Init /\ [][NextReg]_vars

\* One registered journey, with other callers using the JourneyMonitor API
\* while registration and detection cycles run
RegisterOne ==
    \E jid \in ExtIds, dep \in Departures, dbFails \in BOOLEAN :
        RegisterJourney(1, jid, dep, dbFails)

NextCalls == Tick \/ RegisterOne \/ Cycle \/ MonitorCalls

SpecCalls == Init /\ [][NextCalls]_vars

\* Registration and detection cycles with the database available: no
\* statement raises.  The cycle is driven by the scheduler's repeating timer
\* and every awaited call of a started cycle returns, hence the fairness.
RegisterOk ==
    \/ \E jid \in ExtIds, dep \in Departures : RegCheck(1, jid, dep)
    \/ RegInsert(1)
    \/ RegOutbox(1, FALSE)

CycleOk ==
    \/ CycleStart
    \/ CyclePartition(FALSE)
    \/ \E m \in MatcherOutcomes : CycleResolve(m)
    \/ CycleFetchFailed
    \/ \E response \in DarwinResponses : CycleFetch(response)
    \/ \E oracle \in OracleOutcomes : CycleCommit("none", oracle)
    \/ CyclePace
    \/ CycleReturn

NextLive == Tick \/ RegisterOk \/ CycleOk

SpecLive == Init /\ [][NextLive]_vars /\ WF_vars(Tick) /\ WF_vars(CycleOk)

\* Registrations that write their monitoring_started event
RegisterEvents ==
    \E c \in Callers, jid \in ExtIds : RegisterJourney(c, jid, 0, FALSE)

\* Two relay workers, each running processOutbox passes
ProcessOutboxWorkers ==
    \/ \E w \in Workers : ProcessOutboxStart(w)
    \/ \E w \in Workers : RelayPublish(w)
    \/ \E w \in Workers : RelayMarkProcessed(w)
    \/ \E w \in Workers : RelayMarkFailed(w)
    \/ \E w \in Workers : RelayEnd(w)

NextRelay == RegisterEvents \/ ProcessOutboxWorkers \/ BrokerFlip

SpecRelay == Init /\ [][NextRelay]_vars

\* The deployed process (index.ts): the scheduler driving DelayChecker and
\* JourneyMonitor, registrations, and the RIDs other callers resolve
RegisterSingle == \E jid \in ExtIds : RegisterJourney(1, jid, 0, FALSE)

ResolveCalls == \E id \in Callers, rid \in Rids : CallResolveRid(id, rid)

NextSched == Tick \/ RegisterSingle \/ ResolveCalls \/ Scheduler

SpecSched == Init /\ [][NextSched]_vars

\* One registered journey and the detection cycles over it, with upstream
\* records that carry negative minute counts as well
SignedDelayValues == {-1, 0, thresholdMinutes}

SignedResponses ==
    {<<>>} \cup {<<d>> : d \in [rid : Rids, total_delay_minutes : SignedDelayValues,
                                cancelled : BOOLEAN]}

CycleSigned ==
    \/ CycleStart
    \/ \E dbFails \in BOOLEAN : CyclePartition(dbFails)
    \/ \E m \in MatcherOutcomes : CycleResolve(m)
    \/ CycleFetchFailed
    \/ \E response \in SignedResponses : CycleFetch(response)
    \/ \E fault \in TxFaults, oracle \in OracleOutcomes : CycleCommit(fault, oracle)
    \/ CyclePace
    \/ CycleReturn

NextDetect == Tick \/ RegisterSingle \/ CycleSigned

SpecDetect == Init /\ [][NextDetect]_vars

----------------------------------------------------------------------------
(* Single operations called on their own: the inputs are drawn by the      *)
(* initial state, one step applies the operation and records what it       *)
(* returned.                                                               *)

nonProbeVars == <<now, journeys, alerts, outbox, reg, cyc, lastTx, calls, relay, brokerUp,
                  handed, accepted, sched, exec>>

\* DelayAlertInput: the fields triggerClaim reads
AlertInputs ==
    [claim_triggered : BOOLEAN, claim_reference_id : {NULL, 1},
     delay_minutes : {thresholdMinutes - 1, thresholdMinutes, thresholdMinutes + 1}]

TriggerCalls ==
    [fn : {"triggerClaim"}, alert : AlertInputs, oracle : OracleOutcomes, done : {FALSE},
     out : {claimResult(FALSE, "none", NULL, NULL, "absent", FALSE)}]

InitTrigger == InitTables /\ probe \in TriggerCalls

ApplyTriggerClaim ==
    /\ probe.fn = "triggerClaim"
    /\ ~probe.done
    /\ probe' = [probe EXCEPT !.done = TRUE, !.out = triggerClaim(probe.alert, probe.oracle)]
    /\ UNCHANGED nonProbeVars

NextTrigger == ApplyTriggerClaim

SpecTrigger == InitTrigger /\ [][NextTrigger]_vars

\* DelayDetector: construction with a configured threshold, and detectDelay
\* of the detector with the default threshold
Thresholds == {-1, 0, 1, thresholdMinutes}

DetectorMinutes == {-1, 0, 1, thresholdMinutes - 1, thresholdMinutes, thresholdMinutes + 1,
                    2 * thresholdMinutes}

DetectorCalls ==
    [fn : {"detectDelay"}, threshold : {thresholdMinutes},
     journey : [id : {1, 2}, rid : Rids],
     delayData : [rid : RespRids, total_delay_minutes : DetectorMinutes, cancelled : BOOLEAN],
     done : {FALSE}, threw : {FALSE}, out : {notFoundResult([id |-> 0, rid |-> NULL])}]
    \cup
    [fn : {"construct"}, threshold : Thresholds,
     journey : {[id |-> 0, rid |-> NULL]},
     delayData : {[rid |-> NULL, total_delay_minutes |-> 0, cancelled |-> FALSE]},
     done : {FALSE}, threw : {FALSE}, out : {notFoundResult([id |-> 0, rid |-> NULL])}]

InitDetector == InitTables /\ probe \in DetectorCalls

ApplyConstruct ==
    /\ probe.fn = "construct"
    /\ ~probe.done
    /\ probe' = [probe EXCEPT !.done = TRUE, !.threw = constructorRejects(probe.threshold)]
    /\ UNCHANGED nonProbeVars

ApplyDetectDelay ==
    /\ probe.fn = "detectDelay"
    /\ ~probe.done
    /\ probe' = [probe EXCEPT !.done = TRUE,
                              !.out = detectDelay(probe.journey, probe.delayData)]
    /\ UNCHANGED nonProbeVars

NextDetector == ApplyConstruct \/ ApplyDetectDelay

SpecDetector == InitDetector /\ [][NextDetector]_vars

\* status IN (...) of the outbox table
OutboxStatuses == {"pending", "processing", "processed", "published", "failed"}

\* OutboxRepository.cleanupOldEvents on a table of rows of every status and
\* age, at every time and with every retention
CleanupIds == {1, 2}

CleanupCalls ==
    [fn : {"cleanupOldEvents"},
     rows : [CleanupIds -> [status : OutboxStatuses, created_at : 0..MaxDay]],
     t : 0..MaxDay, retentionDays : 0..MaxDay, done : {FALSE}, kept : {CleanupIds},
     rowCount : {0}]

InitCleanup == InitTables /\ probe \in CleanupCalls

ApplyCleanupOldEvents ==
    /\ probe.fn = "cleanupOldEvents"
    /\ ~probe.done
    /\ LET kept == cleanupOldEvents(probe.rows, probe.retentionDays, probe.t)
       IN probe' = [probe EXCEPT !.done = TRUE, !.kept = kept,
                                 !.rowCount = Cardinality(DOMAIN probe.rows \ kept)]
    /\ UNCHANGED nonProbeVars

NextCleanup == ApplyCleanupOldEvents

SpecCleanup == InitCleanup /\ [][NextCleanup]_vars

\* JourneyMonitor.updateStatus called by another caller, with what the call
\* did: n numbers the call, threw says whether it raised
ObservedUpdateStatus(id, newStatus, rid) ==
    /\ id \in JourneyIds(journeys)
    /\ calls < MaxMonitorCalls
    /\ calls' = calls + 1
    /\ journeys' = monitorUpdateStatus(journeys, id, newStatus, rid)
    /\ probe' = [fn |-> "updateStatus", n |-> calls + 1, id |-> id, newStatus |-> newStatus,
                 threw |-> transitionRejected(journeys, id, newStatus)]
    /\ UNCHANGED <<now, alerts, outbox, reg, cyc, lastTx, relayVars, schedVars>>

\* One registered journey, detection cycles with the database available, and
\* other callers of the JourneyMonitor API
MonitorCallsObserved ==
    \/ \E id \in Callers : CallCancelMonitoring(id)
    \/ \E id \in Callers : CallCompleteJourney(id)
    \/ \E id \in Callers, rid \in Rids : CallResolveRid(id, rid)
    \/ \E id \in Callers, st \in MonitoringStatus, rid \in Rids \cup {NULL} :
          ObservedUpdateStatus(id, st, rid)

NextMonitor == Tick \/ RegisterSingle \/ CycleOk \/ MonitorCallsObserved

SpecMonitor == Init /\ [][NextMonitor]_vars

\* The batched lookup with the response the Darwin client returned kept for
\* inspection
CycleFetchObserved(response) ==
    /\ cyc.pc = "fetch"
    /\ LET withRids == journeysWithRidsOf(cyc.active) IN
         IF withRids = <<>>
         THEN /\ response = <<>>
              /\ cyc' = [cyc EXCEPT !.pc = "pace"]
         ELSE cyc' = [cyc EXCEPT !.pc = "commit", !.i = 1,
                         !.results = detectDelaysBatch(withRids,
                                         mapDelayData(withRids, response))]
    /\ probe' = [fn |-> "getDelaysByRids", response |-> response]
    /\ UNCHANGED <<now, journeys, alerts, outbox, reg, lastTx, calls, relayVars, schedVars>>

\* Detection cycles over up to two registered journeys, the database and the
\* claims oracle available
CycleObserved ==
    \/ CycleStart
    \/ CyclePartition(FALSE)
    \/ \E m \in MatcherOutcomes : CycleResolve(m)
    \/ CycleFetchFailed
    \/ \E response \in DarwinResponses : CycleFetchObserved(response)
    \/ \E oracle \in OracleOutcomes : CycleCommit("none", oracle)
    \/ CyclePace
    \/ CycleReturn

NextMatch == Tick \/ RegisterEvents \/ CycleObserved

SpecMatch == Init /\ [][NextMatch]_vars

\* JourneyMonitor.updateLastChecked and resolveRid called statement by
\* statement; dbFails: the second repository statement raises
PaceFirst(ids) ==
    /\ probe.fn = "none"
    /\ ids # {} /\ ids \subseteq JourneyIds(journeys)
    /\ calls < MaxMonitorCalls
    /\ calls' = calls + 1
    /\ journeys' = updateLastCheckedRows(journeys, ids, NULL)
    /\ probe' = [fn |-> "updateLastChecked", ids |-> ids, rid |-> NULL]
    /\ UNCHANGED <<now, alerts, outbox, reg, cyc, lastTx, relayVars, schedVars>>

PaceSecond(dbFails) ==
    /\ probe.fn = "updateLastChecked"
    /\ journeys' = IF dbFails THEN journeys
                   ELSE updateLastCheckedRows(journeys, probe.ids, now + checkIntervalMinutes)
    /\ probe' = ProbeIdle
    /\ UNCHANGED <<now, alerts, outbox, reg, cyc, lastTx, calls, relayVars, schedVars>>

ResolveFirst(id, rid) ==
    /\ probe.fn = "none"
    /\ id \in JourneyIds(journeys)
    /\ journeys[id].monitoring_status = "pending_rid"
    /\ calls < MaxMonitorCalls
    /\ calls' = calls + 1
    /\ journeys' = updateRidStatus(journeys, id, rid, "active")
    /\ probe' = [fn |-> "resolveRid", ids |-> {id}, rid |-> rid]
    /\ UNCHANGED <<now, alerts, outbox, reg, cyc, lastTx, relayVars, schedVars>>

ResolveSecond(dbFails) ==
    /\ probe.fn = "resolveRid"
    /\ journeys' = IF dbFails THEN journeys
                   ELSE CHOOSE J \in {updateNextCheck(journeys, id, now) : id \in probe.ids} : TRUE
    /\ probe' = ProbeIdle
    /\ UNCHANGED <<now, alerts, outbox, reg, cyc, lastTx, calls, relayVars, schedVars>>

StatementCalls ==
    \/ \E ids \in SUBSET Callers : PaceFirst(ids)
    \/ \E dbFails \in BOOLEAN : PaceSecond(dbFails)
    \/ \E id \in Callers, rid \in Rids : ResolveFirst(id, rid)
    \/ \E dbFails \in BOOLEAN : ResolveSecond(dbFails)

\* Registered journeys and the two monitor operations run statement by
\* statement, one call at a time
NextPace == Tick \/ RegisterEvents \/ StatementCalls

SpecPace == Init /\ [][NextPace]_vars

\* One relay worker running processOutbox and retryFailedEvents passes one
\* after the other
RelayWorker ==
    \/ ProcessOutboxStart(1)
    \/ RetryFailedStart(1)
    \/ RelayReset(1)
    \/ RelayPublish(1)
    \/ RelayMarkProcessed(1)
    \/ RelayMarkFailed(1)
    \/ RelayEnd(1)

NextRetry == RegisterEvents \/ RelayWorker \/ BrokerFlip

SpecRetry == Init /\ [][NextRetry]_vars

\* One worker running processOutbox passes while another runs
\* retryFailedEvents passes
ProcessWorker ==
    \/ ProcessOutboxStart(1)
    \/ RelayPublish(1)
    \/ RelayMarkProcessed(1)
    \/ RelayMarkFailed(1)
    \/ RelayEnd(1)

RetryWorker ==
    \/ RetryFailedStart(2)
    \/ RelayReset(2)
    \/ RelayPublish(2)
    \/ RelayMarkProcessed(2)
    \/ RelayMarkFailed(2)
    \/ RelayEnd(2)

NextMixed == RegisterSingle \/ ProcessWorker \/ RetryWorker \/ BrokerFlip

SpecMixed == Init /\ [][NextMixed]_vars

----------------------------------------------------------------------------
(* Properties of the service *)

Terminal == {"completed", "cancelled"}

NoRegistrationInFlight == \A c \in Callers : reg[c].pc \in {"idle", "done"}

EventExists(eventType, aggregateId) ==
    \E k \in DOMAIN outbox :
        outbox[k].event_type = eventType /\ outbox[k].aggregate_id = aggregateId

\* C1: when a per-journey transaction of the detection cycle has ended, the
\* alert insert, the journey's status change and the outbox inserts are
\* either all persisted or none of them is.
C1_CommitScopeAtomic ==
    lastTx.journey # 0 =>
        \/ lastTx.alert /\ lastTx.status /\ lastTx.events
        \/ ~lastTx.alert /\ ~lastTx.status /\ ~lastTx.events

\* C4: whenever no registerJourney or runDetectionCycle call is in flight,
\* every journey in completed or cancelled has next_check_at = null.
C4_TerminalHasNoNextCheck ==
    (cyc.pc = "idle" /\ NoRegistrationInFlight) =>
        \A id \in JourneyIds(journeys) :
            journeys[id].monitoring_status \in Terminal =>
                journeys[id].next_check_at = NULL

\* C5: every change of a journey's monitoring_status, by any operation, is
\* one of the transitions of VALID_TRANSITIONS.
C5_OnlyPermittedTransitions ==
    [][\A id \in JourneyIds(journeys) :
          journeys'[id].monitoring_status # journeys[id].monitoring_status =>
              journeys'[id].monitoring_status
                  \in VALID_TRANSITIONS[journeys[id].monitoring_status]]_vars

\* C6: a journey in completed or cancelled keeps its monitoring_status in
\* every later step.
C6_TerminalIsFinal ==
    [][\A id \in JourneyIds(journeys) :
          journeys[id].monitoring_status \in Terminal =>
              journeys'[id].monitoring_status = journeys[id].monitoring_status]_vars

\* C7: every journey in active or delayed has a non-null rid.
C7_ActiveHasRid ==
    \A id \in JourneyIds(journeys) :
        journeys[id].monitoring_status \in {"active", "delayed"} =>
            journeys[id].rid # NULL

\* C8: a registered journey that is not cancelled and whose scheduled_arrival
\* has passed is eventually completed, whether it is pending_rid, active or
\* delayed.  (Stated from the states in which no cycle is in flight and the
\* journey's next_check_at lies within the model's clock range, so that the
\* bounded clock never stands in the way of the next cycle.  A cycle that
\* finds no due journey returns at once and changes nothing, so a behaviour
\* that ends stuttering is one in which every later cycle finds none due.)
C8_EventuallyCompleted ==
    \A id \in Callers :
        [](( /\ cyc.pc = "idle"
             /\ id \in JourneyIds(journeys)
             /\ journeys[id].monitoring_status \in {"pending_rid", "active", "delayed"}
             /\ journeys[id].scheduled_arrival < now
             /\ journeys[id].next_check_at # NULL
             /\ journeys[id].next_check_at <= MaxClock )
            => <>( /\ id \in JourneyIds(journeys)
                   /\ journeys[id].monitoring_status \in Terminal ))

\* C9: once a registerJourney call has returned or thrown, the row it
\* inserted exists if and only if a journey.monitoring_started outbox row
\* with that row's id as aggregate_id exists.
C9_RegistrationNarrated ==
    \A c \in Callers :
        reg[c].pc = "done" =>
            ((reg[c].row \in JourneyIds(journeys))
                <=> EventExists("journey.monitoring_started", reg[c].row))

\* C10: when the registerJourney calls made with one external journey_id
\* have all ended, and there were at least two, exactly one row with that
\* journey_id exists, exactly one call got through JourneyMonitor.registerJourney
\* and every other one failed with a conflict (the duplicate check or the
\* unique constraint).
CallsFor(jid) == {c \in Callers : reg[c].pc # "idle" /\ reg[c].journey_id = jid}

C10_OneRegistrationWins ==
    \A jid \in ExtIds :
        ( /\ Cardinality(CallsFor(jid)) >= 2
          /\ \A c \in CallsFor(jid) : reg[c].pc = "done" )
        => /\ Cardinality(findByJourneyId(journeys, jid)) = 1
           /\ Cardinality({c \in CallsFor(jid) : reg[c].monitor = "ok"}) = 1
           /\ \A c \in CallsFor(jid) :
                 reg[c].monitor \in {"ok", "already_registered", "unique_violation"}

\* C10 witness: two calls with the same journey_id have ended, one of them
\* stopped by the unique constraint (the concurrent case).
C10_Witness ==
    \E jid \in ExtIds :
        /\ Cardinality(CallsFor(jid)) >= 2
        /\ \A c \in CallsFor(jid) : reg[c].pc = "done"
        /\ \E c \in CallsFor(jid) : reg[c].monitor = "unique_violation"

----------------------------------------------------------------------------
(* Properties of one detection cycle *)

\* C11: when the cycle has returned, every journey for which its matcher
\* lookup gave a RID r has rid = r, is active, and has next_check_at equal to
\* the time of the resolution.
C11_ResolvedDueAtResolutionTime ==
    cyc.pc = "returned" =>
        \A l \in cyc.lookups :
            l.rid # NULL =>
                /\ journeys[l.id].rid = l.rid
                /\ journeys[l.id].monitoring_status = "active"
                /\ journeys[l.id].next_check_at = l.t

\* The step in which the batched upstream lookup fails
FetchFailedStep == cyc.pc = "fetch" /\ cyc'.fetchFailed

\* C18: the step in which the upstream lookup fails creates no alert, writes
\* no outbox event, leaves every journey's monitoring_status as it was, sets
\* next_check_at = now + interval on every journey of the lookup's batch, and
\* ends the cycle by returning zero delaysDetected and claimsTriggered; no
\* commit scope was entered in that cycle.
C18_UpstreamFailureAdvancesOnly ==
    /\ [](cyc.fetchFailed =>
             /\ cyc.pc = "returned"
             /\ cyc.scopes = <<>>
             /\ cyc.delaysDetected = 0 /\ cyc.claimsTriggered = 0)
    /\ [][FetchFailedStep =>
             /\ alerts' = alerts
             /\ outbox' = outbox
             /\ \A id \in JourneyIds(journeys) :
                   journeys'[id].monitoring_status = journeys[id].monitoring_status
             /\ \A j \in Range(journeysWithRidsOf(cyc.active)) :
                   journeys'[j.id].next_check_at = now + checkIntervalMinutes]_vars

\* C18 witness: a cycle has returned after its upstream lookup failed, with
\* an active journey of the batch paced
C18_Witness ==
    /\ cyc.pc = "returned" /\ cyc.fetchFailed
    /\ \E j \in Range(cyc.active) :
          /\ journeys[j.id].monitoring_status = "active"
          /\ journeys[j.id].next_check_at = cyc.now + checkIntervalMinutes

\* The step in which a matcher lookup gives no RID (null, no segments, no
\* non-null RID, or an exception)
LookupFailedStep ==
    /\ cyc.pc = "resolve"
    /\ \E l \in cyc'.lookups \ cyc.lookups : l.rid = NULL

\* C19: a matcher lookup without a RID leaves the journey pending_rid with
\* rid null, sets its next_check_at to now + interval, and the cycle goes on
\* with the next pending journey or, after the last, with the delay lookup.
C19_FailedLookupRetriesLater ==
    [][LookupFailedStep =>
          LET j == cyc.pending[cyc.i] IN
            /\ journeys'[j.id].monitoring_status = "pending_rid"
            /\ journeys'[j.id].rid = NULL
            /\ journeys'[j.id].next_check_at = now + checkIntervalMinutes
            /\ IF cyc.i < Len(cyc.pending)
               THEN cyc'.pc = "resolve" /\ cyc'.i = cyc.i + 1
               ELSE cyc'.pc = "fetch"]_vars

\* C19 witness: after a lookup without a RID the cycle is at the delay lookup
\* and the journey is still pending_rid, to be looked up again later
C19_Witness ==
    /\ cyc.pc = "fetch"
    /\ \E l \in cyc.lookups :
          /\ l.rid = NULL
          /\ journeys[l.id].monitoring_status = "pending_rid"
          /\ journeys[l.id].next_check_at = l.t + checkIntervalMinutes

\* The step in which a statement of a commit scope raises
ScopeRaisedStep ==
    /\ cyc.pc = "commit"
    /\ Len(cyc'.scopes) = Len(cyc.scopes) + 1
    /\ cyc'.scopes[Len(cyc'.scopes)].raised

\* Detection results that open a commit scope
NeedsScope(result) == result.exceedsThreshold \/ result.isCancelled

\* C20: a commit scope in which a statement raises leaves no alert and no
\* outbox row behind, and the cycle goes on: it never ends by throwing once
\* a scope was entered, and when it has returned every result that needed a
\* scope got one and every due journey not completed has been paced.
C20_ScopeFailureIsContained ==
    /\ [](cyc.pc = "threw" => cyc.scopes = <<>>)
    /\ []((cyc.pc = "returned" /\ \E k \in DOMAIN cyc.scopes : cyc.scopes[k].raised) =>
             /\ \A k \in DOMAIN cyc.results :
                   NeedsScope(cyc.results[k]) =>
                       \E n \in DOMAIN cyc.scopes :
                           cyc.scopes[n].journey = cyc.results[k].journeyId
             /\ \A j \in Range(cyc.due) :
                   j.id \notin cyc.completed =>
                       journeys[j.id].next_check_at = cyc.now + checkIntervalMinutes)
    /\ [][ScopeRaisedStep =>
             /\ alerts' = alerts
             /\ outbox' = outbox
             /\ cyc'.pc \in {"commit", "pace"}]_vars

\* C20 witness: the cycle has returned after a first commit scope raised and
\* a later one committed
C20_Witness ==
    /\ cyc.pc = "returned"
    /\ Len(cyc.scopes) = 2
    /\ cyc.scopes[1].raised
    /\ ~cyc.scopes[2].raised

----------------------------------------------------------------------------
(* Properties of the scheduler *)

InFlight == {o \in Origins : exec[o].pc # "idle"}

\* A step in which the execute body of origin o ends with the given outcome
ExecuteEnds(o, outcome) ==
    exec[o].pc # "idle" /\ exec'[o].pc = "idle" /\ exec'[o].outcome = outcome

\* C12: a tick that was not dropped and ended normally has done the work of
\* a detection cycle; in particular every journey it found due whose
\* scheduled_arrival lies before now is completed when the tick ends.
C12_TickRunsDetectionCycle ==
    [][\A o \in Origins :
          ExecuteEnds(o, "ok") =>
              \A j \in Range(exec[o].due) :
                  j.scheduled_arrival < now =>
                      journeys'[j.id].monitoring_status = "completed"]_vars

\* C13: in the step in which stop() resolves, no execute body is in flight
\* (isExecuting() is false).
C13_StopDrainsTick ==
    [][(sched.running /\ ~sched'.running) => ~sched'.executing]_vars

\* A step in which an execute call is dropped
DroppedStep ==
    \E o \in Origins : exec'[o].outcome = "dropped" /\ exec[o].outcome # "dropped"

\* C14: at most one execute body is in flight, the in-flight flag is set
\* exactly while one is, and an execute call made meanwhile is dropped: it
\* begins no body, queries nothing, checks nothing and changes no metric.
C14_OneExecuteInFlight ==
    /\ [](Cardinality(InFlight) <= 1 /\ (sched.executing <=> InFlight # {}))
    /\ [][DroppedStep =>
             /\ InFlight # {}
             /\ sched'.totalExecutions = sched.totalExecutions
             /\ sched'.journeysProcessed = sched.journeysProcessed
             /\ sched'.errorCount = sched.errorCount
             /\ sched'.begun = sched.begun
             /\ sched'.executing
             /\ journeys' = journeys
             /\ \A o \in Origins : exec'[o].pc = exec[o].pc]_vars

\* C14 witness: an execute call was dropped while another body is in flight
C14_Witness ==
    \E o \in Origins, q \in Origins :
        o # q /\ exec[o].pc # "idle" /\ exec[q].pc = "idle" /\ exec[q].outcome = "dropped"

NoOpCallStep ==
    /\ sched'.startCalls + sched'.stopCalls = sched.startCalls + sched.stopCalls + 1
    /\ sched'.running = sched.running

\* C16: at most one interval timer is installed, one is installed exactly
\* when running is true, and the scheduler holds its id; start() on a
\* running scheduler and stop() on a stopped one change no field and begin
\* no tick.
C16_LifecycleIdempotent ==
    /\ [](/\ Cardinality(sched.timers) <= 1
          /\ sched.running <=> sched.timers # {}
          /\ sched.timers = IF sched.intervalId = NULL THEN {} ELSE {sched.intervalId})
    /\ [][NoOpCallStep =>
             /\ [sched' EXCEPT !.startCalls = 0, !.stopCalls = 0]
                   = [sched EXCEPT !.startCalls = 0, !.stopCalls = 0]
             /\ exec' = exec
             /\ journeys' = journeys]_vars

\* C16 witness: start() was called twice with no stop() in between
C16_Witness ==
    /\ sched.startCalls = 2 /\ sched.stopCalls = 0
    /\ sched.running
    /\ Cardinality(sched.timers) = 1

\* C17: a tick whose upstream delay lookup fails is recorded in errorCount,
\* creates no alert, and advances next_check_at of the journeys it found due.
C17_TickUpstreamFailureAdvances ==
    [][\A o \in Origins :
          (exec[o].pc = "check" /\ ExecuteEnds(o, "caught")) =>
              /\ sched'.errorCount = sched.errorCount + 1
              /\ alerts' = alerts
              /\ \A j \in Range(exec[o].due) :
                    /\ journeys'[j.id].next_check_at # NULL
                    /\ journeys'[j.id].next_check_at > now]_vars

----------------------------------------------------------------------------
(* Properties of the outbox relay *)

\* C2: with two processOutbox workers running concurrently, no outbox row is
\* handed to the broker by both of them.
C2_NoRowHandedTwice ==
    \A id \in DOMAIN outbox : Cardinality(handed[id]) <= 1

\* The worker is idle after a retryFailedEvents pass during which the broker
\* was up: up when the pass selected its rows, and at each of its publishes
RecoveredRetryDone ==
    relay[1].pc = "idle" /\ relay[1].kind = "retry" /\ relay[1].up

\* C3 as stated: after three failed attempts (retry_count = maxRetries) and a
\* retryFailedEvents pass run with the broker recovered, the row is processed
\* and the broker has accepted the event exactly once.
C3_PublishedAfterThreeFailures ==
    \A id \in DOMAIN outbox :
        (RecoveredRetryDone /\ outbox[id].retry_count = maxRetries) =>
            (outbox[id].status = "processed" /\ accepted[id] = 1)

\* C3: after one or two failed attempts and a retryFailedEvents pass run with
\* the broker recovered, the row is processed and the broker has accepted the
\* event exactly once; a row that failed maxRetries times is selected by no
\* retry pass, stays failed and is never accepted.
C3_PublishedWithinRetryBudget ==
    \A id \in DOMAIN outbox :
        RecoveredRetryDone =>
            /\ outbox[id].retry_count \in 1..(maxRetries - 1) =>
                   (outbox[id].status = "processed" /\ accepted[id] = 1)
            /\ outbox[id].retry_count = maxRetries =>
                   (outbox[id].status = "failed" /\ accepted[id] = 0)
            /\ outbox[id].retry_count <= maxRetries

\* C3 witness: a row that failed twice has been published by a retry pass
\* after the broker recovered.
C3_Witness ==
    \E id \in DOMAIN outbox :
        /\ RecoveredRetryDone
        /\ outbox[id].retry_count = maxRetries - 1
        /\ outbox[id].status = "processed"
        /\ accepted[id] = 1

----------------------------------------------------------------------------
(* Properties of completion, detection and the claim hand-off *)

CompletedEvents(O, id) ==
    {k \in DOMAIN O : O[k].event_type = "journey.completed" /\ O[k].aggregate_id = id}

\* The step of the partition loop that handles a due journey whose
\* scheduled_arrival is before the cycle's now
PastArrivalStep ==
    /\ cyc.pc = "partition"
    /\ cyc' # cyc
    /\ cyc.due[cyc.i].scheduled_arrival < cyc.now

\* C21: the cycle's handling of a due journey past its scheduled arrival
\* leaves it completed with next_check_at null and exactly one
\* journey.completed event, and keeps it out of the pending-RID group, of the
\* active group whose RIDs go upstream, and of the pacing update.
C21_PastArrivalCompletes ==
    /\ [][PastArrivalStep =>
             LET j == cyc.due[cyc.i] IN
               /\ journeys'[j.id].monitoring_status = "completed"
               /\ journeys'[j.id].next_check_at = NULL
               /\ Cardinality(CompletedEvents(outbox', j.id)) = 1
               /\ j.id \in cyc'.completed
               /\ j \notin Range(cyc'.pending) \cup Range(cyc'.active)]_vars
    /\ [](cyc.pc = "returned" =>
             \A id \in cyc.completed :
                 /\ journeys[id].next_check_at = NULL
                 /\ \A l \in cyc.lookups : l.id # id)

\* The step that runs the commit scope of one detection result, and the log
\* entry it leaves
ScopeStep == cyc.pc = "commit" /\ Len(cyc'.scopes) = Len(cyc.scopes) + 1

ScopeEntry == cyc'.scopes[Len(cyc'.scopes)]

NewEvents(eventType) ==
    {k \in DOMAIN outbox' \ DOMAIN outbox : outbox'[k].event_type = eventType}

NewAlerts == DOMAIN alerts' \ DOMAIN alerts

\* C22: the commit scope of a cancellation observed with 0 delay minutes on
\* an active journey never calls the claims oracle and writes no
\* claim.triggered event; when the database lets its statements through it
\* commits exactly one alert, with delay_minutes = 1 and is_cancellation =
\* true, moves the journey to cancelled and writes one delay.detected event
\* for that alert.
C22_CancellationRecordedUnclaimed ==
    [][(/\ ScopeStep
        /\ ScopeEntry.result.isCancelled
        /\ ScopeEntry.result.delayMinutes = 0
        /\ journeys[ScopeEntry.journey].monitoring_status = "active") =>
          /\ ~ScopeEntry.attempted
          /\ ~ScopeEntry.claim.oracleCalled
          /\ NewEvents("claim.triggered") = {}
          /\ ~ScopeEntry.injected =>
                /\ ~ScopeEntry.raised
                /\ NewAlerts = {Len(alerts) + 1}
                /\ alerts'[Len(alerts')].monitored_journey_id = ScopeEntry.journey
                /\ alerts'[Len(alerts')].delay_minutes = 1
                /\ alerts'[Len(alerts')].is_cancellation
                /\ ~alerts'[Len(alerts')].claim_triggered
                /\ journeys'[ScopeEntry.journey].monitoring_status = "cancelled"
                /\ Cardinality(NewEvents("delay.detected")) = 1
                /\ \A k \in NewEvents("delay.detected") :
                      outbox'[k].aggregate_id = Len(alerts')]_vars

\* C22 witness: a cancellation observed with 0 minutes has been committed:
\* its alert carries 1 minute and the journey is cancelled
C22_Witness ==
    \E k \in DOMAIN cyc.scopes :
        /\ cyc.scopes[k].result.isCancelled
        /\ cyc.scopes[k].result.delayMinutes = 0
        /\ ~cyc.scopes[k].raised
        /\ journeys[cyc.scopes[k].journey].monitoring_status = "cancelled"
        /\ \E a \in DOMAIN alerts :
              /\ alerts[a].monitored_journey_id = cyc.scopes[k].journey
              /\ alerts[a].delay_minutes = 1
              /\ alerts[a].is_cancellation

AtLeastOne(n) == IF n < 1 THEN 1 ELSE n

\* C23: whatever minute count was observed, a commit scope that the database
\* lets through inserts an alert with delay_minutes = max(1, observed), and
\* every stored alert has delay_minutes > 0.
C23_AlertMinutesAtLeastOne ==
    /\ [](\A a \in DOMAIN alerts : alerts[a].delay_minutes > 0)
    /\ [][(ScopeStep /\ ~ScopeEntry.injected) =>
             /\ NewAlerts = {Len(alerts) + 1}
             /\ alerts'[Len(alerts')].delay_minutes =
                    AtLeastOne(ScopeEntry.result.delayMinutes)]_vars

NonSuccessReasons == {"NOT_ELIGIBLE", "DUPLICATE_CLAIM", "SERVICE_ERROR", "NETWORK_ERROR"}

\* SUCCESS as the claim trigger's table has it: success with the reference
ReturnedSuccess(claim) == claim.success /\ claim.claimReferenceId # NULL

\* C24: a commit scope writes a claim.triggered event only if triggerClaim
\* was called and returned SUCCESS; when the database lets the scope's
\* statements through, SUCCESS commits the alert with claim_triggered = true
\* and the returned reference together with the claim.triggered event, and
\* each of NOT_ELIGIBLE, DUPLICATE_CLAIM, SERVICE_ERROR and NETWORK_ERROR
\* commits the alert with claim_triggered = false and a stored response,
\* writes its delay.detected event and writes no claim.triggered event.
C24_ClaimEventIffSuccess ==
    [][ScopeStep =>
          /\ NewEvents("claim.triggered") # {} =>
                /\ ScopeEntry.attempted
                /\ ReturnedSuccess(ScopeEntry.claim)
                /\ ~ScopeEntry.raised
          /\ (ScopeEntry.attempted /\ ~ScopeEntry.injected) =>
                /\ ~ScopeEntry.raised
                /\ NewAlerts = {Len(alerts) + 1}
                /\ Cardinality(NewEvents("delay.detected")) = 1
                /\ ReturnedSuccess(ScopeEntry.claim) =>
                      /\ alerts'[Len(alerts')].claim_triggered
                      /\ alerts'[Len(alerts')].claim_reference_id =
                             ScopeEntry.claim.claimReferenceId
                      /\ Cardinality(NewEvents("claim.triggered")) = 1
                      /\ \A k \in NewEvents("claim.triggered") :
                            outbox'[k].aggregate_id = Len(alerts')
                /\ ScopeEntry.claim.reason \in NonSuccessReasons =>
                      /\ ~alerts'[Len(alerts')].claim_triggered
                      /\ alerts'[Len(alerts')].claim_trigger_response # "null"
                      /\ NewEvents("claim.triggered") = {}]_vars

\* C24 witness: a scope whose claim ended NETWORK_ERROR has committed its
\* alert, untriggered and with the response stored
C24_Witness ==
    \E k \in DOMAIN cyc.scopes :
        /\ cyc.scopes[k].attempted
        /\ cyc.scopes[k].claim.reason = "NETWORK_ERROR"
        /\ ~cyc.scopes[k].raised
        /\ \E a \in DOMAIN alerts :
              /\ alerts[a].monitored_journey_id = cyc.scopes[k].journey
              /\ ~alerts[a].claim_triggered
              /\ alerts[a].claim_trigger_response = "NETWORK_ERROR"
        /\ \E e \in DOMAIN outbox : outbox[e].event_type = "delay.detected"

TriggeredJourneys ==
    {alerts[a].monitored_journey_id : a \in {b \in DOMAIN alerts : alerts[b].claim_triggered}}

\* C25: no commit scope, and with it no alert insert and no oracle call, is
\* ever run for a journey that already has an alert with claim_triggered =
\* true; such a journey has that one alert only and is in no later due set.
C25_TriggeredJourneyNotRevisited ==
    /\ [](\A id \in TriggeredJourneys :
             /\ Cardinality({a \in DOMAIN alerts : alerts[a].monitored_journey_id = id}) = 1
             /\ id \notin DueIds(journeys, now))
    /\ [][ScopeStep => ScopeEntry.journey \notin TriggeredJourneys]_vars
    /\ [][cyc.pc = "idle" /\ cyc'.pc # "idle" =>
             \A j \in Range(cyc'.due) : j.id \notin TriggeredJourneys]_vars

\* C25 witness: a detection cycle that began after a journey's claim was
\* triggered has handled other journeys and returned
C25_Witness ==
    /\ cyc.pc = "returned"
    /\ \E a \in DOMAIN alerts :
          /\ alerts[a].claim_triggered
          /\ alerts[a].claim_triggered_at < cyc.now
          /\ \A j \in Range(cyc.due) : j.id # alerts[a].monitored_journey_id

----------------------------------------------------------------------------
(* Properties of single operations *)

TriggerDone == probe.fn = "triggerClaim" /\ probe.done

PreChecksPassed ==
    ~probe.alert.claim_triggered /\ probe.alert.delay_minutes >= thresholdMinutes

\* C27: past the local pre-checks, triggerClaim answers as the table says:
\* success = true with eligible other than false and reference X gives
\* success carrying X; success = false with reference X gives DUPLICATE_CLAIM
\* carrying X; success true or absent with eligible = false gives
\* NOT_ELIGIBLE; success = false without a reference gives SERVICE_ERROR with
\* retryable = false; a network, timeout or connection exception gives
\* NETWORK_ERROR with retryable = true.
C27_OracleAnswerClassified ==
    (TriggerDone /\ PreChecksPassed) =>
        IF probe.oracle.kind = "throw"
        THEN probe.oracle.message \in {"network", "timeout", "ECONNREFUSED", "connection"} =>
                 /\ probe.out.reason = "NETWORK_ERROR"
                 /\ probe.out.retryable = "true"
        ELSE LET r == probe.oracle.response IN
             /\ (r.success = "true" /\ r.eligible # "false" /\ r.claim_reference_id # NULL) =>
                    /\ probe.out.success
                    /\ probe.out.claimReferenceId = r.claim_reference_id
             /\ (r.success = "false" /\ r.claim_reference_id # NULL) =>
                    /\ probe.out.reason = "DUPLICATE_CLAIM"
                    /\ probe.out.existingClaimReferenceId = r.claim_reference_id
             /\ (r.success \in {"true", "absent"} /\ r.eligible = "false") =>
                    probe.out.reason = "NOT_ELIGIBLE"
             /\ (r.success = "false" /\ r.claim_reference_id = NULL) =>
                    /\ probe.out.reason = "SERVICE_ERROR"
                    /\ probe.out.retryable = "false"

\* C28: triggerClaim does not call the oracle for an alert whose claim is
\* already triggered, returning ALREADY_TRIGGERED with the alert's reference,
\* nor for an alert below the threshold, returning BELOW_THRESHOLD; for every
\* other alert it calls the oracle.
C28_PreChecksSpareTheOracle ==
    TriggerDone =>
        IF probe.alert.claim_triggered
        THEN /\ probe.out.reason = "ALREADY_TRIGGERED"
             /\ probe.out.existingClaimReferenceId = probe.alert.claim_reference_id
             /\ ~probe.out.success
             /\ ~probe.out.oracleCalled
        ELSE IF probe.alert.delay_minutes < thresholdMinutes
        THEN /\ probe.out.reason = "BELOW_THRESHOLD"
             /\ ~probe.out.success
             /\ ~probe.out.oracleCalled
        ELSE probe.out.oracleCalled

\* C28 witness: an alert whose claim is already triggered has been answered
\* with its own reference and without a call of the oracle
C28_Witness ==
    /\ TriggerDone
    /\ probe.alert.claim_triggered
    /\ probe.alert.claim_reference_id # NULL
    /\ probe.out.reason = "ALREADY_TRIGGERED"
    /\ probe.out.existingClaimReferenceId = probe.alert.claim_reference_id
    /\ ~probe.out.oracleCalled

\* C29: detectDelay returns is_delayed = (minutes > 0 or cancelled),
\* is_cancelled = cancelled, exceeds_threshold = (minutes >= T) and
\* claim_eligible = (exceeds_threshold or cancelled); with T = 15 a delay of
\* 14 minutes that is no cancellation is not claim-eligible and delays of 15
\* and 16 minutes are; constructing a detector with T <= 0 throws.
C29_DetectorClassifies ==
    /\ (probe.fn = "detectDelay" /\ probe.done) =>
          LET d == probe.delayData
              o == probe.out
          IN /\ o.isDelayed = (d.total_delay_minutes > 0 \/ d.cancelled)
             /\ o.isCancelled = d.cancelled
             /\ o.exceedsThreshold = (d.total_delay_minutes >= probe.threshold)
             /\ o.claimEligible = (o.exceedsThreshold \/ d.cancelled)
             /\ (d.total_delay_minutes = 14 /\ ~d.cancelled) => ~o.claimEligible
             /\ d.total_delay_minutes \in {15, 16} => o.claimEligible
    /\ (probe.fn = "construct" /\ probe.done /\ probe.threshold <= 0) => probe.threw

\* C29 witness: a delay of exactly the threshold, no cancellation, has been
\* classified claim-eligible
C29_Witness ==
    /\ probe.fn = "detectDelay"
    /\ probe.done
    /\ probe.delayData.total_delay_minutes = thresholdMinutes
    /\ ~probe.delayData.cancelled
    /\ probe.out.exceedsThreshold
    /\ probe.out.claimEligible

\* The step that is an observed updateStatus call
UpdateStatusStep == probe'.fn = "updateStatus" /\ probe'.n = calls'  /\ calls' = calls + 1

\* The transitions the lifecycle permits
Permitted(s) ==
    CASE s = "pending_rid" -> {"active", "cancelled"}
      [] s = "active"      -> {"delayed", "completed", "cancelled"}
      [] s = "delayed"     -> {"completed", "cancelled"}
      [] OTHER             -> {}

\* C30: an updateStatus call for a transition the journey's current status
\* does not permit raises and leaves the journey's row as it was; every
\* updateStatus call on a completed or cancelled journey raises.
C30_InvalidTransitionRejected ==
    [][UpdateStatusStep =>
          LET id == probe'.id
              s == journeys[id].monitoring_status
          IN /\ probe'.newStatus \notin Permitted(s) =>
                   /\ probe'.threw
                   /\ journeys'[id] = journeys[id]
             /\ s \in {"completed", "cancelled"} => probe'.threw]_vars

\* C30 witness: an updateStatus call on a cancelled journey has raised and
\* the journey is still cancelled
C30_Witness ==
    /\ probe.fn = "updateStatus"
    /\ probe.threw
    /\ probe.n = calls
    /\ journeys[probe.id].monitoring_status = "cancelled"

----------------------------------------------------------------------------
(* Properties of the outbox store and of the relay under interleaving *)

CleanupDone == probe.fn = "cleanupOldEvents" /\ probe.done

Expired(row, retentionDays, t) == row.created_at < t - retentionDays

\* C31: cleanupOldEvents(retentionDays) deletes exactly the processed rows
\* created before now - retentionDays: no pending or failed row is deleted,
\* no younger processed row is, and the count returned is the number deleted.
C31_CleanupDeletesOldProcessedOnly ==
    CleanupDone =>
        /\ \A id \in DOMAIN probe.rows :
               id \notin probe.kept <=>
                   /\ probe.rows[id].status = "processed"
                   /\ Expired(probe.rows[id], probe.retentionDays, probe.t)
        /\ probe.rowCount = Cardinality(DOMAIN probe.rows \ probe.kept)

\* C31 witness: an expired processed row has been deleted while an equally
\* old failed row has been kept
C31_Witness ==
    /\ CleanupDone
    /\ \E a, b \in DOMAIN probe.rows :
           /\ probe.rows[a].status = "processed" /\ a \notin probe.kept
           /\ probe.rows[b].status = "failed" /\ b \in probe.kept
           /\ probe.rows[b].created_at = probe.rows[a].created_at

\* Worker w calls messageBroker.publish for row id in this step
PublishStep(w, id) ==
    /\ relay[w].pc \in {"loop", "reset"}
    /\ relay'[w].pc \in {"accepted", "rejected"}
    /\ id = relay[w].events[relay[w].i]

\* C32: the broker accepts the events in the order of their creation: an
\* event is accepted only when every event created before it has been.
C32_BrokerAcceptsInCreationOrder ==
    \A e1, e2 \in DOMAIN outbox :
        (e1 < e2 /\ accepted[e2] > 0) => accepted[e1] > 0

\* C33: no row's retry_count exceeds maxRetries, and publish is not called
\* for a failed row whose retry_count has reached maxRetries, with a
\* processOutbox worker and a retryFailedEvents worker interleaved.
C33_RetryBudgetRespected ==
    /\ [](\A id \in DOMAIN outbox : outbox[id].retry_count <= maxRetries)
    /\ [][\A w \in Workers, id \in DOMAIN outbox :
             PublishStep(w, id) =>
                 ~(outbox[id].status = "failed" /\ outbox[id].retry_count >= maxRetries)]_vars

\* C34: a row marked processed after the broker accepted its event stays
\* processed, and publish is not called for it again, with a processOutbox
\* worker and a retryFailedEvents worker interleaved.
C34_ProcessedIsFinal ==
    [][\A id \in DOMAIN outbox :
          (outbox[id].status = "processed" /\ accepted[id] > 0) =>
              /\ outbox'[id].status = "processed"
              /\ \A w \in Workers : ~PublishStep(w, id)]_vars

----------------------------------------------------------------------------
(* Properties of the detection cycle as a whole *)

\* The upstream response holds a record for this rid that exceeds the
\* threshold or is a cancellation
QualifyingRecord(response, rid) ==
    \E k \in DOMAIN response :
        /\ response[k].rid = rid
        /\ (response[k].total_delay_minutes >= thresholdMinutes \/ response[k].cancelled)

\* C35: the cycle enters the commit scope of a journey (creating its alert
\* and changing its status to delayed or cancelled) only if the upstream
\* response holds a record with exactly the journey's rid that exceeds the
\* threshold or is a cancellation.
C35_AlertOnlyForOwnRid ==
    \A k \in DOMAIN cyc.scopes :
        QualifyingRecord(probe.response, journeys[cyc.scopes[k].journey].rid)

\* The cycle has handed its metrics, or its exception, to the caller
CycleEnded == cyc.pc \in {"returned", "threw"}

\* C36: when the cycle has returned or thrown, a journey of its due set has
\* been set to completed by it if and only if a journey.completed event for
\* that journey is in the outbox.
C36_CompletionAndEventTogether ==
    CycleEnded =>
        \A k \in DOMAIN cyc.due :
            LET j == cyc.due[k]
            IN j.monitoring_status # "completed" =>
                   (journeys[j.id].monitoring_status = "completed"
                        <=> CompletedEvents(outbox, j.id) # {})

\* C37: a commit scope in which the claims oracle accepted the claim
\* (SUCCESS with reference X) leaves a committed alert of the journey with
\* claim_triggered = true and claim_reference_id = X, also when a later
\* statement of the scope raises.
C37_AcceptedClaimIsRecorded ==
    [][(ScopeStep /\ ScopeEntry.attempted /\ ReturnedSuccess(ScopeEntry.claim)) =>
          \E a \in DOMAIN alerts' :
              /\ alerts'[a].monitored_journey_id = ScopeEntry.journey
              /\ alerts'[a].claim_triggered
              /\ alerts'[a].claim_reference_id = ScopeEntry.claim.claimReferenceId]_vars

\* No monitor call is in progress
Quiescent == probe.fn = "none"

\* C38: whenever no operation is in progress, every journey in status
\* pending_rid or active has a next_check_at, so the due query returns it
\* again; this includes the moments after updateLastChecked or resolveRid
\* failed between its two repository statements.
C38_NonTerminalIsScheduled ==
    Quiescent =>
        \A id \in JourneyIds(journeys) :
            journeys[id].monitoring_status \in {"pending_rid", "active"} =>
                journeys[id].next_check_at # NULL

\* The records of the response that carry this rid, in the response's order
OwnRecords(response, rid) == {k \in DOMAIN response : response[k].rid = rid}

\* The response holds no record with this rid, or the first one that does
\* is below the threshold and no cancellation
NothingToReport(response, rid) ==
    LET own == OwnRecords(response, rid)
    IN \/ own = {}
       \/ LET d == response[CHOOSE k \in own : \A m \in own : k <= m]
          IN d.total_delay_minutes < thresholdMinutes /\ ~d.cancelled

\* The cycle has returned after examining the upstream response
ReturnedAfterLookup == cyc.pc = "returned" /\ ~cyc.fetchFailed /\ cyc.active # <<>>

\* C39: for a due active journey whose matched record is below the threshold
\* and no cancellation, or whose rid no record of the response carries, the
\* returned cycle has entered no commit scope (no alert, no outbox event, no
\* oracle call), the journey is still active with its rid, and its
\* next_check_at is the time of the pacing update plus the tick interval.
C39_QuietJourneyOnlyPaced ==
    ReturnedAfterLookup =>
        \A k \in DOMAIN cyc.active :
            LET j == cyc.active[k]
            IN (j.rid # NULL /\ NothingToReport(probe.response, j.rid)) =>
                   /\ \A s \in DOMAIN cyc.scopes : cyc.scopes[s].journey # j.id
                   /\ \A a \in DOMAIN alerts : alerts[a].monitored_journey_id # j.id
                   /\ journeys[j.id].monitoring_status = "active"
                   /\ journeys[j.id].rid = j.rid
                   /\ journeys[j.id].next_check_at = cyc.now + checkIntervalMinutes

\* C40: the metrics count committed work: each commit scope raises
\* delaysDetected by the number of alerts it committed and claimsTriggered by
\* the number of claim.triggered events it committed, also when it rolls
\* back.
C40_MetricsCountCommittedWork ==
    [][ScopeStep =>
          /\ cyc'.delaysDetected - cyc.delaysDetected = Cardinality(NewAlerts)
          /\ cyc'.claimsTriggered - cyc.claimsTriggered =
                 Cardinality(NewEvents("claim.triggered"))]_vars

====
